---- MODULE Spec2Model ----
(***************************************************************************)
(* Arithmetic Sequence Generator (src/app.py).                             *)
(*                                                                         *)
(* The program is one pure function, generate_arithmetic_sequence, and a   *)
(* Streamlit script, main, that reads three widgets, validates the term    *)
(* count, calls the function and renders the formula, the sequence, the    *)
(* "View All Terms" rows and four metrics.  Streamlit re-runs main on      *)
(* every widget change, so a behaviour is a series of runs.                *)
(*                                                                         *)
(* Numbers are integers (integer-valued floats are exact in the ranges     *)
(* used here).  Python lists are 0-based, TLA+ sequences 1-based: the      *)
(* Python element sequence[k] is sequence[k + 1] below.                    *)
(***************************************************************************)
EXTENDS Integers, Sequences, FiniteSets

(* ----------------------------- bounds ---------------------------------- *)

\* first_term is drawn from -MaxFirstTerm..MaxFirstTerm (and BigFirstTerm)
MaxFirstTerm == 1

\* common_difference is drawn from -MaxDifference..MaxDifference
MaxDifference == 1

\* a first term with more than six significant digits, so that the "g"
\* presentation type rounds what is displayed
BigFirstTerm == 1234567

\* term counts are drawn from -MaxNonPositive..MaxSmallCount and the
\* boundary values of BoundaryCounts
MaxNonPositive == 1

MaxSmallCount == 12

\* term counts of the calls compared with one another for determinism
MaxPureCount == 3

(* ------------------------- program constants --------------------------- *)

MaxTerms == 1000

PreviewLimit == 20

PreviewLen == 10

ExpandLimit == 100

RowSize == 10

NumberedRowSize == 10

(* ------------------------------ state ---------------------------------- *)

VARIABLES
    pc,                 \* position of the run
    entry,              \* who drives the run: "main", "direct" or "pure"
    in_first_term,      \* main: first_term read from the widget
    in_common_difference, \* main: common_difference read from the widget
    in_num_terms,       \* main: num_terms read from the widget
    first_term,         \* generate_arithmetic_sequence: parameter
    common_difference,  \* generate_arithmetic_sequence: parameter
    num_terms,          \* generate_arithmetic_sequence: parameter
    i,                  \* generate_arithmetic_sequence: next value of range(num_terms)
    sequence,           \* generate_arithmetic_sequence: the list being built
    returned,           \* main: the list the call returned
    message,            \* main: st.error / st.warning shown, or "none"
    formula,            \* main: <<>> or <<the formula shown>>
    seq_display,        \* main: <<>> or <<the sequence line shown>>
    view_i,             \* main: terms consumed by the "View All Terms" loop
    terms_row,          \* main: the row being assembled
    expander,           \* main: what was written into "View All Terms"
    stats,              \* main: <<>> or <<the values the metrics are made of>>
    metrics,            \* main: <<>> or <<the four metrics as displayed>>
    prev                \* <<>> or <<an earlier call of the function and its result>>

engine_vars == <<first_term, common_difference, num_terms, i, sequence>>

input_vars == <<in_first_term, in_common_difference, in_num_terms>>

output_vars == <<message, formula, seq_display, view_i, terms_row, expander, stats, metrics>>

vars == <<pc, entry, input_vars, engine_vars, returned, output_vars, prev>>

(* ----------------------------- helpers --------------------------------- *)

Abs(x) == IF x < 0 THEN 0 - x ELSE x

Min(a, b) == IF a < b THEN a ELSE b

\* int(num_terms): the widget has integer min_value, max_value, value and
\* step, so it yields an int and int() leaves it as it is
ToInt(x) == x

\* round a >= 0 to a multiple of u, ties to the even multiple
RoundHalfEven(a, u) ==
    LET q == a \div u
        r == a % u
    IN  IF 2 * r < u THEN q * u
        ELSE IF 2 * r > u THEN (q + 1) * u
        ELSE IF q % 2 = 0 THEN q * u ELSE (q + 1) * u

\* the unit (in halves) of the sixth significant digit of a / 2 >= 100000
RECURSIVE UnitOfSixthDigit(_, _)
UnitOfSixthDigit(a, u) ==
    IF a < u * 1000000 THEN u ELSE UnitOfSixthDigit(a, u * 10)

\* f"{v:g}" for v = h / 2: the number the text denotes, in halves.  "g"
\* keeps six significant digits; below 100000 a multiple of one half has
\* at most six, so the text is exact.
FormatGHalves(h) ==
    LET a == Abs(h)
        m == IF a < 200000 THEN a ELSE RoundHalfEven(a, UnitOfSixthDigit(a, 2))
    IN  IF h < 0 THEN 0 - m ELSE m

\* f"{x:g}" for an integer x: the number the text denotes
FormatG(x) ==
    LET m == Abs(FormatGHalves(2 * x)) \div 2
    IN  IF x < 0 THEN 0 - m ELSE m

\* sum(sequence).  Python adds from left to right; integer addition is
\* associative, so the halves of the list are added separately here to keep
\* the depth of the evaluation logarithmic.
RECURSIVE SumRange(_, _, _)
SumRange(s, lo, hi) ==
    IF lo > hi THEN 0
    ELSE IF lo = hi THEN s[lo]
    ELSE LET mid == (lo + hi) \div 2
         IN  SumRange(s, lo, mid) + SumRange(s, mid + 1, hi)

Sum(s) == SumRange(s, 1, Len(s))

\* s[:k]
Prefix(s, k) == SubSeq(s, 1, Min(k, Len(s)))

(* -------------------- generate_arithmetic_sequence --------------------- *)

\* sequence = []
EmptyListLeftover == sequence

EmptyList == <<>>

\* term = first_term + (i * common_difference)
TermOffByOne(a1, d, k) == a1 + ((k + 1) * d)

Term(a1, d, k) == a1 + (k * d)

\* sequence.append(term)
PrependTerm(s, t) == <<t>> \o s

AppendTermTwice(s, t) == Append(Append(s, t), t)

AppendTerm(s, t) == Append(s, t)

\* for i in range(num_terms): another value is due
RangeInclusive(k, n) == k <= n

RangeHasNext(k, n) == k < n

\* the call: bind the parameters, create the list, create the range iterator
Call(a1, d, n) ==
    /\ first_term' = a1
    /\ common_difference' = d
    /\ num_terms' = n
    /\ i' = 0
    /\ sequence' = EmptyList

\* one iteration of the loop
LoopStep ==
    /\ pc = "generate"
    /\ RangeHasNext(i, num_terms)
    /\ sequence' = AppendTerm(sequence, Term(first_term, common_difference, i))
    /\ i' = i + 1
    /\ UNCHANGED <<pc, entry, input_vars, first_term, common_difference, num_terms,
                   returned, output_vars, prev>>

\* return sequence, to main's try block
Return ==
    /\ pc = "generate"
    /\ entry \in {"main", "direct"}
    /\ ~RangeHasNext(i, num_terms)
    /\ returned' = sequence
    /\ pc' = "display"
    /\ UNCHANGED <<entry, input_vars, engine_vars, output_vars, prev>>

(* ------------------------------- main ---------------------------------- *)

\* st.error("Number of terms must be a positive integer!")
MsgNonPositive == "error: must be a positive integer"

\* st.warning("For performance reasons, please limit the number of terms ...")
MsgTooMany == "warning: limit the number of terms"

\* st.error(f"An error occurred while generating the sequence: {str(e)}")
MsgException == "error: an error occurred while generating the sequence"

FirstTerms == (0 - MaxFirstTerm)..MaxFirstTerm

Differences == (0 - MaxDifference)..MaxDifference

SmallCounts == (0 - MaxNonPositive)..MaxSmallCount

\* the term counts at which main changes branch
BoundaryCounts ==
    {PreviewLimit, PreviewLimit + 1, ExpandLimit, ExpandLimit + 1, MaxTerms, MaxTerms + 1}

\* what the three widgets may hold at the start of a run.  The widgets are
\* Streamlit's; the range check modelled here is main's own (lines 66-72).
Requests ==
    (FirstTerms \X Differences \X (SmallCounts \cup BoundaryCounts))
        \cup ({BigFirstTerm} \X Differences \X SmallCounts)

\* arguments of calls that bypass main's validation
DirectRequests == (FirstTerms \cup {BigFirstTerm}) \X Differences \X SmallCounts

\* a run starts with nothing rendered and no call in progress
FreshRun ==
    /\ returned' = <<>>
    /\ message' = "none"
    /\ formula' = <<>>
    /\ seq_display' = <<>>
    /\ view_i' = 0
    /\ terms_row' = <<>>
    /\ expander' = <<>>
    /\ stats' = <<>>
    /\ metrics' = <<>>

\* main, lines 21-63: the page is set up and the three widgets are read
MainRun ==
    /\ pc \in {"idle", "done"}
    /\ \E r \in Requests :
          /\ in_first_term' = r[1]
          /\ in_common_difference' = r[2]
          /\ in_num_terms' = r[3]
    /\ entry' = "main"
    /\ pc' = "validate"
    /\ FreshRun
    /\ first_term' = 0
    /\ common_difference' = 0
    /\ num_terms' = 0
    /\ i' = 0
    /\ sequence' = <<>>
    /\ UNCHANGED prev

\* if num_terms <= 0
NonPositiveOffByOne(n) == n < 0

NonPositive(n) == n <= 0

\* if num_terms > 1000
TooManyOffByOne(n) == n > MaxTerms + 1

TooMany(n) == n > MaxTerms

\* st.error(...); return
RejectNonPositive ==
    /\ pc = "validate"
    /\ NonPositive(in_num_terms)
    /\ message' = MsgNonPositive
    /\ pc' = "done"
    /\ UNCHANGED <<entry, input_vars, engine_vars, returned, formula, seq_display,
                   view_i, terms_row, expander, stats, metrics, prev>>

\* st.warning(...); return
RejectTooMany ==
    /\ pc = "validate"
    /\ ~NonPositive(in_num_terms)
    /\ TooMany(in_num_terms)
    /\ message' = MsgTooMany
    /\ pc' = "done"
    /\ UNCHANGED <<entry, input_vars, engine_vars, returned, formula, seq_display,
                   view_i, terms_row, expander, stats, metrics, prev>>

\* sequence = generate_arithmetic_sequence(first_term, common_difference, int(num_terms))
MainCall ==
    /\ pc = "validate"
    /\ ~NonPositive(in_num_terms)
    /\ ~TooMany(in_num_terms)
    /\ Call(in_first_term, in_common_difference, ToInt(in_num_terms))
    /\ pc' = "generate"
    /\ UNCHANGED <<entry, input_vars, returned, output_vars, prev>>

\* the try block of main (lines 75-153) entered with unvalidated arguments
DirectCall ==
    /\ pc \in {"idle", "done"}
    /\ \E r \in DirectRequests :
          /\ in_first_term' = r[1]
          /\ in_common_difference' = r[2]
          /\ in_num_terms' = r[3]
          /\ Call(r[1], r[2], ToInt(r[3]))
    /\ entry' = "direct"
    /\ pc' = "generate"
    /\ FreshRun
    /\ UNCHANGED prev

\* ", ".join([f"{term:g}" for term in s])
FormatAll(s) == [k \in 1..Len(s) |-> FormatG(s[k])]

\* lines 78-95: the formula and the sequence line
Display ==
    /\ pc = "display"
    /\ formula' = <<[a1 |-> in_first_term, d |-> in_common_difference,
                     n |-> ToInt(in_num_terms)]>>
    /\ seq_display' =
          IF Len(returned) <= PreviewLimit
          THEN <<[kind |-> "Sequence", terms |-> FormatAll(returned)]>>
          ELSE <<[kind |-> "First 10 terms",
                  terms |-> FormatAll(Prefix(returned, PreviewLen))]>>
    /\ view_i' = 0
    /\ terms_row' = <<>>
    /\ expander' = <<>>
    /\ pc' = "view"
    /\ UNCHANGED <<entry, input_vars, engine_vars, returned, message, stats, metrics, prev>>
\* the end of a numbered row: i % 10 == 0 or i == len(sequence)
RowEndsOnFullOnly(k, len) == k % NumberedRowSize = 0

RowEnds(k, len) == k % NumberedRowSize = 0 \/ k = len

\* "View All Terms", len(sequence) <= 100: one iteration of
\* for i, term in enumerate(sequence, 1)
ViewTerm ==
    /\ pc = "view"
    /\ Len(returned) <= ExpandLimit
    /\ view_i < Len(returned)
    /\ LET k == view_i + 1
           term == returned[k]
           starts == k % NumberedRowSize = 1
           spacing == IF starts /\ k > 1 THEN <<[kind |-> "spacing"]>> ELSE <<>>
           row == Append(IF starts THEN <<>> ELSE terms_row,
                         [idx |-> k, text |-> FormatG(term)])
           written == IF RowEnds(k, Len(returned))
                      THEN <<[kind |-> "numbered", terms |-> row]>>
                      ELSE <<>>
       IN  /\ terms_row' = row
           /\ expander' = expander \o spacing \o written
           /\ view_i' = k
    /\ UNCHANGED <<pc, entry, input_vars, engine_vars, returned, message, formula,
                   seq_display, stats, metrics, prev>>

\* s[lo:hi]
SliceShort(s, lo, hi) == SubSeq(s, lo + 1, Min(hi - 1, Len(s)))

Slice(s, lo, hi) == SubSeq(s, lo + 1, Min(hi, Len(s)))

\* "View All Terms", len(sequence) > 100: one iteration of
\* for i in range(0, len(sequence), terms_per_row)
ViewRow ==
    /\ pc = "view"
    /\ Len(returned) > ExpandLimit
    /\ view_i < Len(returned)
    /\ LET row_terms == Slice(returned, view_i, view_i + RowSize)
       IN  expander' = Append(expander,
                              [kind |-> "range",
                               lo |-> view_i + 1,
                               hi |-> Min(view_i + RowSize, Len(returned)),
                               terms |-> FormatAll(row_terms)])
    /\ view_i' = view_i + RowSize
    /\ UNCHANGED <<pc, entry, input_vars, engine_vars, returned, message, formula,
                   seq_display, terms_row, stats, metrics, prev>>

\* the loop of "View All Terms" is exhausted
ViewEnd ==
    /\ pc = "view"
    /\ view_i >= Len(returned)
    /\ pc' = "stats"
    /\ UNCHANGED <<entry, input_vars, engine_vars, returned, output_vars, prev>>

\* sequence[0]
First(s) == s[1]

\* sequence[-1]
LastButOne(s) == s[IF Len(s) > 1 THEN Len(s) - 1 ELSE 1]

Last(s) == s[Len(s)]

\* arithmetic_sum = (len(sequence) / 2) * (sequence[0] + sequence[-1]), doubled
\* so that the half of an odd length stays an integer
ArithmeticSumTwiceOfGaps(s) == (Len(s) - 1) * (First(s) + Last(s))

ArithmeticSumTwice(s) == Len(s) * (First(s) + Last(s))

\* lines 120-136: the four metrics
Statistics ==
    /\ pc = "stats"
    /\ Len(returned) > 0
    /\ stats' = <<[first |-> First(returned),
                   last |-> Last(returned),
                   sum_direct |-> Sum(returned),
                   sum_formula_x2 |-> ArithmeticSumTwice(returned)]>>
    /\ metrics' = <<[first |-> FormatG(First(returned)),
                     last |-> FormatG(Last(returned)),
                     sum |-> FormatG(Sum(returned)),
                     formula_x2 |-> FormatGHalves(ArithmeticSumTwice(returned))]>>
    /\ pc' = "done"
    /\ UNCHANGED <<entry, input_vars, engine_vars, returned, message, formula,
                   seq_display, view_i, terms_row, expander, prev>>

\* sequence[0] of an empty list raises IndexError before any metric is made;
\* lines 151-153 catch it and show st.error
StatisticsError ==
    /\ pc = "stats"
    /\ Len(returned) = 0
    /\ message' = MsgException
    /\ pc' = "done"
    /\ UNCHANGED <<entry, input_vars, engine_vars, returned, formula, seq_display,
                   view_i, terms_row, expander, stats, metrics, prev>>

(* ---------------- calls of the function on their own ------------------- *)

PureRequests == FirstTerms \X Differences \X ((0 - MaxNonPositive)..MaxPureCount)

\* generate_arithmetic_sequence(a1, d, n), called by itself
PureCall ==
    /\ pc \in {"idle", "done"}
    /\ \E r \in PureRequests : Call(r[1], r[2], r[3])
    /\ entry' = "pure"
    /\ pc' = "generate"
    /\ returned' = <<>>
    /\ UNCHANGED <<input_vars, output_vars, prev>>

\* return sequence; the caller may keep the arguments and the result to
\* compare a later call with
PureReturn ==
    /\ pc = "generate"
    /\ entry = "pure"
    /\ ~RangeHasNext(i, num_terms)
    /\ returned' = sequence
    /\ pc' = "done"
    /\ \/ prev' = prev
       \/ prev' = <<[args |-> <<first_term, common_difference, num_terms>>,
                     result |-> sequence]>>
    /\ UNCHANGED <<entry, input_vars, engine_vars, output_vars>>

(* -------------------------- specifications ----------------------------- *)

Init ==
    /\ pc = "idle"
    /\ entry = "none"
    /\ in_first_term = 0
    /\ in_common_difference = 0
    /\ in_num_terms = 0
    /\ first_term = 0
    /\ common_difference = 0
    /\ num_terms = 0
    /\ i = 0
    /\ sequence = <<>>
    /\ returned = <<>>
    /\ message = "none"
    /\ formula = <<>>
    /\ seq_display = <<>>
    /\ view_i = 0
    /\ terms_row = <<>>
    /\ expander = <<>>
    /\ stats = <<>>
    /\ metrics = <<>>
    /\ prev = <<>>

Next ==
    \/ MainRun
    \/ RejectNonPositive
    \/ RejectTooMany
    \/ MainCall
    \/ DirectCall
    \/ LoopStep
    \/ Return
    \/ Display
    \/ ViewTerm
    \/ ViewRow
    \/ ViewEnd
    \/ Statistics
    \/ StatisticsError

Spec == Init /\ [][Next]_vars

NextPure ==
    \/ PureCall
    \/ LoopStep
    \/ PureReturn

SpecPure == Init /\ [][NextPure]_vars
(* ------------------------------ properties ----------------------------- *)

\* the call has returned its list to the caller
AfterReturn == pc \in {"display", "view", "stats", "done"} /\ entry \in {"main", "direct"}




\* C1: for every valid request (num_terms >= 1) the returned list holds, at
\* every index k with 0 <= k < num_terms, the term first_term + k * d, in
\* increasing index order.
C1_TermsFollowClosedForm ==
    (AfterReturn /\ num_terms >= 1) =>
        \A k \in 0..(num_terms - 1) :
            /\ k + 1 \in DOMAIN returned
            /\ returned[k + 1] = first_term + k * common_difference

C1_Witness ==
    /\ AfterReturn
    /\ entry = "main"
    /\ num_terms >= 3
    /\ common_difference # 0
    /\ returned[3] = first_term + 2 * common_difference
    /\ returned[3] # returned[1]

\* C2: for every valid request the returned list has exactly num_terms terms.
C2_LengthIsNumTerms ==
    (AfterReturn /\ num_terms >= 1) => Len(returned) = num_terms

C2_Witness ==
    /\ AfterReturn
    /\ entry = "main"
    /\ num_terms = MaxTerms
    /\ Len(returned) = MaxTerms

\* C3: for every valid request the sum by direct addition equals the closed
\* form (len / 2) * (first + last): twice the direct sum is
\* len * (first + last), for n = 1 and for odd n too.
C3_SumsAgree ==
    (stats # <<>>) =>
        /\ stats[1].sum_direct = Sum(returned)
        /\ 2 * stats[1].sum_direct = stats[1].sum_formula_x2
        /\ stats[1].sum_formula_x2 = Len(returned) * (returned[1] + returned[Len(returned)])

C3_Witness ==
    /\ stats # <<>>
    /\ entry = "main"
    /\ Len(returned) >= 3
    /\ Len(returned) % 2 = 1
    /\ common_difference # 0
    /\ stats[1].sum_direct # 0

\* C4 as stated: a call with num_terms < 1 fails and returns no result.
C4_Original ==
    (entry = "direct" /\ num_terms < 1) => pc \notin {"display", "view", "stats", "done"}

\* C4 amended: a call with num_terms < 1 raises nothing; its loop runs zero
\* times and it returns an empty list.  The error for num_terms <= 0 is
\* main's, shown before any call is made.
C4_EmptyListNotError ==
    /\ (entry = "direct" /\ num_terms < 1) =>
          /\ i = 0
          /\ sequence = <<>>
          /\ (AfterReturn => returned = <<>>)
    /\ (entry = "main" /\ in_num_terms < 1) =>
          /\ pc \in {"validate", "done"}
          /\ (pc = "done" => message = MsgNonPositive)

C4_Witness ==
    /\ entry = "direct"
    /\ num_terms = 0
    /\ pc = "display"
    /\ returned = <<>>

\* C5: main calls the function only when 1 <= num_terms <= 1000; for
\* num_terms <= 0 or num_terms > 1000 it shows a message and returns with
\* no formula, sequence, row or statistic rendered.
C5_CallOnlyInRange ==
    (entry = "main") =>
        /\ (pc = "generate" =>
               /\ 1 <= num_terms /\ num_terms <= MaxTerms
               /\ num_terms = in_num_terms)
        /\ (in_num_terms <= 0 \/ in_num_terms > MaxTerms) =>
               /\ pc \in {"validate", "done"}
               /\ sequence = <<>> /\ returned = <<>>
               /\ formula = <<>> /\ seq_display = <<>> /\ expander = <<>>
               /\ stats = <<>> /\ metrics = <<>>
               /\ (pc = "done" =>
                      message = IF in_num_terms <= 0 THEN MsgNonPositive ELSE MsgTooMany)

C5_Witness ==
    /\ entry = "main"
    /\ pc = "done"
    /\ in_num_terms = MaxTerms + 1
    /\ message = MsgTooMany
    /\ formula = <<>>

\* C6: two calls with identical arguments return identical lists, whatever
\* calls were made in between.
C6_SameArgumentsSameResult ==
    (entry = "pure" /\ pc = "done" /\ prev # <<>>
        /\ prev[1].args = <<first_term, common_difference, num_terms>>) =>
            returned = prev[1].result

C6_Witness ==
    /\ entry = "pure"
    /\ pc = "done"
    /\ prev # <<>>
    /\ prev[1].args = <<first_term, common_difference, num_terms>>
    /\ num_terms >= 2
    /\ common_difference # 0
    /\ returned = prev[1].result
    /\ Len(returned) = num_terms

\* C7 as stated: the first and last metrics shown are first_term and
\* first_term + (num_terms - 1) * common_difference.
C7_Original ==
    (entry = "main" /\ metrics # <<>>) =>
        /\ metrics[1].first = in_first_term
        /\ metrics[1].last = in_first_term + (in_num_terms - 1) * in_common_difference

\* C7 amended: the first and last statistics are sequence[0] = first_term and
\* sequence[-1] = first_term + (num_terms - 1) * common_difference, the
\* displayed formula evaluated at n = num_terms; the metrics show them in
\* "g" format, that is rounded to six significant digits.
C7_FirstAndLast ==
    (entry = "main" /\ stats # <<>>) =>
        /\ stats[1].first = returned[1]
        /\ stats[1].first = in_first_term
        /\ stats[1].last = returned[Len(returned)]
        /\ stats[1].last = in_first_term + (in_num_terms - 1) * in_common_difference
        /\ formula # <<>>
        /\ stats[1].last = formula[1].a1 + (formula[1].n - 1) * formula[1].d
        /\ (in_num_terms = 1 => stats[1].first = stats[1].last)
        /\ metrics # <<>>
        /\ metrics[1].first = FormatG(stats[1].first)
        /\ metrics[1].last = FormatG(stats[1].last)

C7_Witness ==
    /\ entry = "main"
    /\ stats # <<>>
    /\ in_first_term = BigFirstTerm
    /\ in_num_terms >= 2
    /\ in_common_difference # 0
    /\ metrics[1].last # stats[1].last

\* C8: the statistics of an empty list end in the error message and no
\* metric; and a run of main never gets there, since every list that reaches
\* the statistics was generated with num_terms >= 1.
C8_EmptyStatistics ==
    /\ (pc = "done" /\ formula # <<>> /\ Len(returned) = 0) =>
          /\ message = MsgException
          /\ stats = <<>>
          /\ metrics = <<>>
    /\ (entry = "main") =>
          /\ message # MsgException
          /\ (pc \in {"stats", "done"} /\ formula # <<>>) =>
                 /\ num_terms >= 1
                 /\ Len(returned) >= 1
                 /\ (pc = "done" => metrics # <<>>)

C8_Witness ==
    /\ entry = "direct"
    /\ pc = "done"
    /\ formula # <<>>
    /\ Len(returned) = 0
    /\ message = MsgException
    /\ metrics = <<>>

\* C9: for 1 <= num_terms <= 1000 the loop makes exactly num_terms
\* iterations; after k of them the list holds exactly the first k terms, and
\* the call returns when k = num_terms.
C9_LoopInvariant ==
    (entry \in {"main", "direct"} /\ pc = "generate"
        /\ 1 <= num_terms /\ num_terms <= MaxTerms) =>
            /\ 0 <= i /\ i <= num_terms
            /\ Len(sequence) = i
            /\ \A k \in 0..(i - 1) :
                   sequence[k + 1] = first_term + k * common_difference
            /\ (ENABLED LoopStep) = (i < num_terms)
            /\ (ENABLED Return) = (i = num_terms)

C9_Witness ==
    /\ entry = "main"
    /\ pc = "generate"
    /\ num_terms = MaxTerms
    /\ i = MaxTerms
    /\ Len(sequence) = MaxTerms

\* the rows written into "View All Terms", without the spacing between them
IsRow(w) == w.kind # "spacing"

Rows == SelectSeq(expander, IsRow)

\* C10: when "View All Terms" is complete its rows partition the sequence:
\* row r holds the terms at positions 10(r-1)+1 .. min(10r, n), in order;
\* every row holds at most 10 terms, only the last may hold fewer, and none
\* is dropped when n is not a multiple of 10.
C10_RowsPartition ==
    (entry = "main" /\ pc \in {"stats", "done"} /\ formula # <<>>) =>
        LET n == Len(returned)
        IN  /\ Len(Rows) = (n + 9) \div 10
            /\ \A r \in 1..Len(Rows) :
                  LET lo == 10 * (r - 1) + 1
                      hi == Min(10 * r, n)
                      row == Rows[r]
                  IN  /\ Len(row.terms) = hi - lo + 1
                      /\ Len(row.terms) <= 10
                      /\ (r < Len(Rows) => Len(row.terms) = 10)
                      /\ row.kind = (IF n <= ExpandLimit THEN "numbered" ELSE "range")
                      /\ (row.kind = "range" => row.lo = lo /\ row.hi = hi)
                      /\ \A k \in 1..Len(row.terms) :
                            IF row.kind = "numbered"
                            THEN /\ row.terms[k].idx = lo + k - 1
                                 /\ row.terms[k].text = FormatG(returned[lo + k - 1])
                            ELSE row.terms[k] = FormatG(returned[lo + k - 1])

C10_Witness ==
    /\ entry = "main"
    /\ pc = "stats"
    /\ Len(returned) = ExpandLimit + 1
    /\ Len(Rows) = 11
    /\ Len(Rows[11].terms) = 1

====
